---- MODULE Spec2Model ----
(***************************************************************************)
(* A model of app.py: the Streamlit page that turns a question into SQL    *)
(* with a generative service, re-cases the query against the uploaded      *)
(* database's schema and runs it.                                          *)
(*                                                                         *)
(* A Python str is a sequence of one-character strings.  A dict is the     *)
(* sequence of its items in insertion order.                               *)
(***************************************************************************)
EXTENDS Integers, Sequences, FiniteSets

(***************************************************************************)
(* Bounds of the instances.                                                *)
(***************************************************************************)
MaxQueryLen == 3
MaxNames == 2
MaxSchemaChars == 3
MaxTagLen == 1

(***************************************************************************)
(* Characters and str methods.                                             *)
(***************************************************************************)
Letters == {"a", "A", "b"}
Whitespace == {" ", "\n"}
\* the backtick character of a Markdown code fence, written "#" here
Backtick == "#"
Chars == Letters \cup Whitespace \cup {Backtick}

\* str.lower() on one character (ASCII)
LowerChar(c) == IF c = "A" THEN "a" ELSE c

\* str.lower()
Lower(s) == [i \in 1..Len(s) |-> LowerChar(s[i])]

\* s[i:] of Python, for 0-based i = n
Drop(s, n) == SubSeq(s, n + 1, Len(s))

\* s.startswith(p)
StartsWith(s, p) == Len(p) <= Len(s) /\ SubSeq(s, 1, Len(p)) = p

\* p in s
Contains(s, p) == \E i \in 0..Len(s) : StartsWith(Drop(s, i), p)

RECURSIVE ReplaceNonEmpty(_, _, _)
ReplaceNonEmpty(s, old, new) ==
    IF Len(s) < Len(old) THEN s
    ELSE IF StartsWith(s, old)
         THEN new \o ReplaceNonEmpty(Drop(s, Len(old)), old, new)
         ELSE <<Head(s)>> \o ReplaceNonEmpty(Tail(s), old, new)

RECURSIVE Interleave(_, _)
Interleave(s, new) ==
    IF s = <<>> THEN new ELSE new \o <<Head(s)>> \o Interleave(Tail(s), new)

\* s.replace(old, new): every non-overlapping occurrence, left to right; an
\* empty old matches before every character and at the end
Replace(s, old, new) ==
    IF old = <<>> THEN Interleave(s, new) ELSE ReplaceNonEmpty(s, old, new)

RECURSIVE LStrip(_, _)
LStrip(s, set) ==
    IF s # <<>> /\ Head(s) \in set THEN LStrip(Tail(s), set) ELSE s

RECURSIVE RStrip(_, _)
RStrip(s, set) ==
    IF s # <<>> /\ s[Len(s)] \in set THEN RStrip(SubSeq(s, 1, Len(s) - 1), set) ELSE s

\* s.strip(chars): chars is a set of characters, not a prefix
Strip(s, set) == RStrip(LStrip(s, set), set)

\* every str over the character set cs of length at most n
StrUpTo(cs, n) == UNION {[1..k -> cs] : k \in 0..n}

(***************************************************************************)
(* validate_sql_query.  schema_info is the dict of inspector results: a    *)
(* sequence of items [table, columns] in insertion order.                  *)
(***************************************************************************)

\* CorrectName with the name qualified by a blank, as a careless rewrite would
CorrectNameQualified(corrected_query, query, name) ==
    IF Contains(Lower(query), Lower(name))
    THEN Replace(corrected_query, Lower(name), <<" ">> \o name)
    ELSE corrected_query

\* one `if name.lower() in query.lower(): corrected_query = ...replace(...)`
CorrectName(corrected_query, query, name) ==
    IF Contains(Lower(query), Lower(name))
    THEN Replace(corrected_query, Lower(name), name)
    ELSE corrected_query

\* `for column in columns:`
RECURSIVE CorrectColumns(_, _, _)
CorrectColumns(corrected_query, query, columns) ==
    IF columns = <<>> THEN corrected_query
    ELSE CorrectColumns(CorrectName(corrected_query, query, Head(columns)),
                        query, Tail(columns))

\* `for table, columns in schema_info.items():`
RECURSIVE CorrectTables(_, _, _)
CorrectTables(corrected_query, query, items) ==
    IF items = <<>> THEN corrected_query
    ELSE CorrectTables(
             CorrectColumns(CorrectName(corrected_query, query, Head(items).table),
                            query, Head(items).columns),
             query, Tail(items))

validate_sql_query(query, schema_info) == CorrectTables(query, query, schema_info)

(***************************************************************************)
(* The schemas a SQLite file can have, within the bounds: table names      *)
(* differ case-insensitively, and so do the column names of one table.     *)
(***************************************************************************)
IdentChars == Letters
QueryChars == Letters \cup {" "}

\* the lists of n names that use at most c characters in all
RECURSIVE NameLists(_, _)
NameLists(n, c) ==
    IF n = 0 THEN {<<>>}
    ELSE UNION {{<<nm>> \o rest : rest \in NameLists(n - 1, c - Len(nm))} :
                nm \in StrUpTo(IdentChars, c)}

\* names[1] is a table; names[i] opens a new table when newTable[i], and is
\* a column of the table before it otherwise
RECURSIVE ColumnsFrom(_, _, _)
ColumnsFrom(names, newTable, i) ==
    IF i > Len(names) \/ newTable[i] THEN <<>>
    ELSE <<names[i]>> \o ColumnsFrom(names, newTable, i + 1)

RECURSIVE Items(_, _, _)
Items(names, newTable, i) ==
    IF i > Len(names) THEN <<>>
    ELSE IF i = 1 \/ newTable[i]
         THEN <<[table |-> names[i],
                 columns |-> ColumnsFrom(names, newTable, i + 1)]>>
              \o Items(names, newTable, i + 1)
         ELSE Items(names, newTable, i + 1)

Distinct(seq) == \A i, j \in 1..Len(seq) : i # j => Lower(seq[i]) # Lower(seq[j])

WellFormed(items) ==
    /\ Distinct([i \in 1..Len(items) |-> items[i].table])
    /\ \A i \in 1..Len(items) : Distinct(items[i].columns)

Schemas ==
    {sch \in UNION {{Items(names, newTable, 1) :
                        names \in NameLists(n, MaxSchemaChars),
                        newTable \in [1..n -> BOOLEAN]} : n \in 0..MaxNames} :
        WellFormed(sch)}

Queries == StrUpTo(QueryChars, MaxQueryLen)

\* every table and column name of a schema
RECURSIVE SchemaNames(_)
SchemaNames(items) ==
    IF items = <<>> THEN {}
    ELSE {Head(items).table}
         \cup {Head(items).columns[i] : i \in 1..Len(Head(items).columns)}
         \cup SchemaNames(Tail(items))

(***************************************************************************)
(* get_gemini_response: the prompt, the one call, the cleaning.            *)
(***************************************************************************)

\* `response.text.strip("```").strip()`
clean_response(text) == Strip(Strip(text, {Backtick}), Whitespace)

\* the f-string of lines 18-32, its fixed parts kept as single pieces
Prompt(question, schema_info) ==
    <<"You are an expert in converting English questions to SQL query. ">>
    \o schema_info
    \o <<" Ensure that the query does not start or end with backticks. Question: ">>
    \o question

\* get_gemini_response with a second attempt after a failed call
get_gemini_response_retry(question, schema_info, outcome) ==
    [prompt |-> Prompt(question, schema_info),
     calls  |-> IF outcome.raised THEN 2 ELSE 1,
     raised |-> outcome.raised,
     error  |-> outcome.error,
     value  |-> IF outcome.raised THEN <<>> ELSE clean_response(outcome.text)]

\* outcome is what generate_content / response.text did: raised, or a text
get_gemini_response(question, schema_info, outcome) ==
    [prompt |-> Prompt(question, schema_info),
     calls  |-> 1,
     raised |-> outcome.raised,
     error  |-> outcome.error,
     value  |-> IF outcome.raised THEN <<>> ELSE clean_response(outcome.text)]

\* a Markdown code fence around Q, with a language tag
Fence(tag, Q) ==
    <<Backtick, Backtick, Backtick>> \o tag \o <<"\n">> \o Q \o <<"\n">>
    \o <<Backtick, Backtick, Backtick>>

(***************************************************************************)
(* read_sql_query.  outcome is what sqlite3 did with the statement.        *)
(***************************************************************************)
\* read_sql_query without its except clause
read_sql_query_raising(outcome) ==
    [raised |-> outcome.raised, type |-> "list", text |-> <<>>, rows |-> outcome.rows]

read_sql_query(outcome) ==
    IF outcome.raised
    THEN [raised |-> FALSE, type |-> "str", text |-> outcome.error, rows |-> <<>>]
    ELSE [raised |-> FALSE, type |-> "list", text |-> <<>>, rows |-> outcome.rows]

(***************************************************************************)
(* get_schema_info_with_sqlalchemy.  bytes is the content of the file: a   *)
(* database with a schema, or something that is no database.               *)
(***************************************************************************)
get_schema_info_with_sqlalchemy(bytes) ==
    IF bytes.valid
    THEN [type |-> "dict", items |-> bytes.schema, text |-> <<>>]
    ELSE [type |-> "str", items |-> <<>>, text |-> <<"file is not a database">>]

\* ', '.join(columns)
RECURSIVE Join(_, _)
Join(strs, sep) ==
    IF strs = <<>> THEN <<>>
    ELSE IF Len(strs) = 1 THEN Head(strs)
         ELSE Head(strs) \o sep \o Join(Tail(strs), sep)

\* line 122 if it took the error string as the schema text
format_schema_info_lenient(schema_info) ==
    [raised |-> FALSE, error |-> <<>>, value |-> schema_info.text]

\* line 122: schema_info.items() exists only on a dict
format_schema_info(schema_info) ==
    IF schema_info.type = "dict"
    THEN [raised |-> FALSE, error |-> <<>>,
          value  |-> Join([i \in 1..Len(schema_info.items) |->
                              <<"Table ">> \o schema_info.items[i].table \o <<": ">>
                              \o Join(schema_info.items[i].columns, <<", ">>)],
                          <<"\n">>)]
    ELSE [raised |-> TRUE, value |-> <<>>,
          error  |-> <<"'str' object has no attribute 'items'">>]

\* line 110 without the strip
IsBlankUnstripped(question) == question = <<>>

\* line 110: question.strip() == ""
IsBlank(question) == Strip(question, Whitespace) = <<>>

(***************************************************************************)
(* The page.  Every browser session runs the script from the top on a      *)
(* click; the sessions are threads of one process and share the working    *)
(* directory, so temp_database.db is one file for all of them.             *)
(***************************************************************************)
VARIABLES
    pc,                 \* where each session's script run is
    submit,             \* st.button: whether the run was started by the button
    question,           \* st.text_input
    uploaded_file,      \* st.file_uploader
    schema_info,
    formatted_schema_info,
    prompt,             \* the prompt sent to the service
    response,
    corrected_query,
    result,
    display,            \* what the run has rendered so far
    temp_database,      \* the file temp_database.db
    calls,              \* history: generate_content calls of the run
    writes,             \* history: times the run opened or wrote the file
    sqlite_outcome,     \* history: what sqlite3 did with the run's statement
    inspected,          \* history: the file content the run inspected
    executed,           \* history: the file content the run executed against
    overlapped,         \* history: another run was in progress during this one
    fstep,              \* the function harness: which step was applied
    t_Q, t_tag, t_fenced, t_raw, t_cleaned,
    v_query, v_schema, v_corrected, v_again

pageVars == <<pc, submit, question, uploaded_file, schema_info,
              formatted_schema_info, prompt, response, corrected_query, result,
              display, temp_database, calls, writes, sqlite_outcome, inspected,
              executed, overlapped>>
harnessVars == <<fstep, t_Q, t_tag, t_fenced, t_raw, t_cleaned,
                 v_query, v_schema, v_corrected, v_again>>
vars == <<pageVars, harnessVars>>

Sessions == {"s1", "s2"}

\* the uploads: two databases and a file that is no database
DbOne == [id |-> "one", valid |-> TRUE,
          schema |-> <<[table |-> <<"A", "b">>, columns |-> << <<"a">> >>]>>]
DbTwo == [id |-> "two", valid |-> TRUE,
          schema |-> <<[table |-> <<"b">>, columns |-> <<>>]>>]
NotADb == [id |-> "garbage", valid |-> FALSE, schema |-> <<>>]
\* uploaded_file is None
NoFile == [id |-> "None", valid |-> FALSE, schema |-> <<>>]
\* a file just truncated: SQLite reads it as a database with no tables
EmptyDb == [id |-> "empty", valid |-> TRUE, schema |-> <<>>]
\* the bytes of two writers that had the file open at once
MixedBytes == [id |-> "mixed", valid |-> FALSE, schema |-> <<>>]
Uploads == {DbOne, DbTwo, NotADb}

Questions == {<<>>, <<" ">>, <<" ", "\n">>, <<"a">>, <<" ", "b">>}

\* what the service can do with a prompt
ServiceOutcomes ==
    {[raised |-> TRUE, error |-> <<"service unavailable">>, text |-> <<>>]}
    \cup {[raised |-> FALSE, error |-> <<>>, text |-> t] :
             t \in {<<"a", "b", " ", "a">>, Fence(<<"b">>, <<"A", "b">>)}}

\* what sqlite3 can do with a statement on a file of these bytes
SqliteOutcomes(bytes) ==
    IF ~bytes.valid
    THEN {[raised |-> TRUE, error |-> <<"file is not a database">>,
           rows |-> <<>>, mutates |-> FALSE]}
    ELSE {[raised |-> TRUE, error |-> <<"no such table">>,
           rows |-> <<>>, mutates |-> FALSE],
          [raised |-> FALSE, error |-> <<>>, rows |-> <<>>, mutates |-> FALSE],
          [raised |-> FALSE, error |-> <<>>, rows |-> <<>>, mutates |-> TRUE],
          [raised |-> FALSE, error |-> <<>>,
           rows |-> << <<"1">>, <<"2">> >>, mutates |-> FALSE]}

NoSchema == [type |-> "none", items |-> <<>>, text |-> <<>>]
NoResult == [type |-> "none", text |-> <<>>, rows |-> <<>>]
NoOutcome == [raised |-> FALSE, error |-> <<>>, rows |-> <<>>, mutates |-> FALSE,
              ran |-> FALSE]
NoContent == [bytes |-> NoFile, by |-> "nobody", dirty |-> FALSE]

\* st.error, st.subheader, st.code, st.write
Widget(w, t, a) == [widget |-> w, text |-> t, arg |-> a]
ValidationError == Widget("error", "Please enter a valid question.", <<>>)
ProcessingError(e) == Widget("error", "Error processing the query: ", e)

InitPage ==
    /\ pc = [s \in Sessions |-> "idle"]
    /\ submit = [s \in Sessions |-> FALSE]
    /\ question = [s \in Sessions |-> <<>>]
    /\ uploaded_file = [s \in Sessions |-> NoFile]
    /\ schema_info = [s \in Sessions |-> NoSchema]
    /\ formatted_schema_info = [s \in Sessions |-> <<>>]
    /\ prompt = [s \in Sessions |-> <<>>]
    /\ response = [s \in Sessions |-> <<>>]
    /\ corrected_query = [s \in Sessions |-> <<>>]
    /\ result = [s \in Sessions |-> NoResult]
    /\ display = [s \in Sessions |-> <<>>]
    /\ temp_database = NoContent
    /\ calls = [s \in Sessions |-> 0]
    /\ writes = [s \in Sessions |-> 0]
    /\ sqlite_outcome = [s \in Sessions |-> NoOutcome]
    /\ inspected = [s \in Sessions |-> NoContent]
    /\ executed = [s \in Sessions |-> NoContent]
    /\ overlapped = [s \in Sessions |-> FALSE]

InitHarness ==
    /\ fstep = "none"
    /\ t_Q = <<>> /\ t_tag = <<>> /\ t_fenced = FALSE /\ t_raw = <<>> /\ t_cleaned = <<>>
    /\ v_query = <<>> /\ v_schema = <<>> /\ v_corrected = <<>> /\ v_again = <<>>

Init == InitPage /\ InitHarness

\* line 145-146: the one handler of the chain ends the run
Handle(s, e) ==
    /\ display' = [display EXCEPT ![s] = Append(@, ProcessingError(e))]
    /\ pc' = [pc EXCEPT ![s] = "idle"]

\* lines 100-111: a run of the script from the top, with the widgets' values
RunScript(s, env) ==
    /\ pc[s] = "idle"
    /\ \E file \in env.files, q \in env.questions, clicked \in env.clicks :
        LET entered == file.id # "None" /\ clicked
            passes == entered /\ ~IsBlank(q)
        IN  /\ submit' = [submit EXCEPT ![s] = clicked]
            /\ question' = [question EXCEPT ![s] = q]
            /\ uploaded_file' = [uploaded_file EXCEPT ![s] = file]
            /\ display' = [display EXCEPT ![s] =
                              IF entered /\ IsBlank(q) THEN <<ValidationError>> ELSE <<>>]
            /\ pc' = [pc EXCEPT ![s] = IF passes THEN "open" ELSE "idle"]
            /\ overlapped' =
                   [t \in Sessions |->
                       IF t = s THEN passes /\ \E u \in Sessions \ {s} : pc[u] # "idle"
                       ELSE overlapped[t] \/ (passes /\ pc[t] # "idle")]
    /\ schema_info' = [schema_info EXCEPT ![s] = NoSchema]
    /\ formatted_schema_info' = [formatted_schema_info EXCEPT ![s] = <<>>]
    /\ prompt' = [prompt EXCEPT ![s] = <<>>]
    /\ response' = [response EXCEPT ![s] = <<>>]
    /\ corrected_query' = [corrected_query EXCEPT ![s] = <<>>]
    /\ result' = [result EXCEPT ![s] = NoResult]
    /\ calls' = [calls EXCEPT ![s] = 0]
    /\ writes' = [writes EXCEPT ![s] = 0]
    /\ sqlite_outcome' = [sqlite_outcome EXCEPT ![s] = NoOutcome]
    /\ inspected' = [inspected EXCEPT ![s] = NoContent]
    /\ executed' = [executed EXCEPT ![s] = NoContent]
    /\ UNCHANGED <<temp_database, harnessVars>>

\* a write that is lost: the file stays as it was
WrittenLost(file, s, bytes) == {file.bytes}

\* what f.write leaves in the file: the upload, or a mix when another writer
\* has touched the file since this run opened it
Written(file, s, bytes) ==
    IF file.by = s THEN {bytes} ELSE {bytes, MixedBytes}

\* line 115: open("temp_database.db", "wb") truncates the file, or raises
OpenFile(s) ==
    /\ pc[s] = "open"
    /\ \/ /\ temp_database' = [bytes |-> EmptyDb, by |-> s, dirty |-> FALSE]
          /\ writes' = [writes EXCEPT ![s] = @ + 1]
          /\ pc' = [pc EXCEPT ![s] = "write"]
          /\ UNCHANGED display
       \/ /\ Handle(s, <<"Permission denied: 'temp_database.db'">>)
          /\ UNCHANGED <<temp_database, writes>>
    /\ UNCHANGED <<submit, question, uploaded_file, schema_info,
                   formatted_schema_info, prompt, response, corrected_query, result,
                   calls, sqlite_outcome, inspected, executed, overlapped,
                   harnessVars>>

\* line 116: f.write(uploaded_file.getbuffer()), and the close
WriteFile(s) ==
    /\ pc[s] = "write"
    /\ \E b \in Written(temp_database, s, uploaded_file[s]) :
          temp_database' = [bytes |-> b, by |-> s, dirty |-> FALSE]
    /\ writes' = [writes EXCEPT ![s] = @ + 1]
    /\ pc' = [pc EXCEPT ![s] = "inspect"]
    /\ UNCHANGED <<submit, question, uploaded_file, schema_info,
                   formatted_schema_info, prompt, response, corrected_query, result,
                   display, calls, sqlite_outcome, inspected, executed, overlapped,
                   harnessVars>>

\* line 119
InspectSchema(s) ==
    /\ pc[s] = "inspect"
    /\ schema_info' = [schema_info EXCEPT ![s] =
                          get_schema_info_with_sqlalchemy(temp_database.bytes)]
    /\ inspected' = [inspected EXCEPT ![s] = temp_database]
    /\ pc' = [pc EXCEPT ![s] = "format"]
    /\ UNCHANGED <<submit, question, uploaded_file, formatted_schema_info, prompt,
                   response, corrected_query, result, display, temp_database, calls,
                   writes, sqlite_outcome, executed, overlapped, harnessVars>>

\* line 122
FormatSchema(s) ==
    /\ pc[s] = "format"
    /\ LET f == format_schema_info(schema_info[s])
       IN  IF f.raised
           THEN /\ Handle(s, f.error)
                /\ UNCHANGED formatted_schema_info
           ELSE /\ formatted_schema_info' =
                       [formatted_schema_info EXCEPT ![s] = f.value]
                /\ pc' = [pc EXCEPT ![s] = "generate"]
                /\ UNCHANGED display
    /\ UNCHANGED <<submit, question, uploaded_file, schema_info, prompt, response,
                   corrected_query, result, temp_database, calls, writes,
                   sqlite_outcome, inspected, executed, overlapped, harnessVars>>

\* lines 125-127
Generate(s, env) ==
    /\ pc[s] = "generate"
    /\ \E outcome \in env.service :
        LET r == get_gemini_response(question[s], formatted_schema_info[s], outcome)
        IN  /\ prompt' = [prompt EXCEPT ![s] = r.prompt]
            /\ calls' = [calls EXCEPT ![s] = @ + r.calls]
            /\ IF r.raised
               THEN /\ Handle(s, r.error)
                    /\ UNCHANGED response
               ELSE /\ response' = [response EXCEPT ![s] = r.value]
                    /\ display' = [display EXCEPT ![s] =
                           @ \o <<Widget("subheader", "Generated SQL Query:", <<>>),
                                  Widget("code", "", r.value)>>]
                    /\ pc' = [pc EXCEPT ![s] = "correct"]
    /\ UNCHANGED <<submit, question, uploaded_file, schema_info,
                   formatted_schema_info, corrected_query, result, temp_database,
                   writes, sqlite_outcome, inspected, executed, overlapped,
                   harnessVars>>

\* lines 130-132
Correct(s) ==
    /\ pc[s] = "correct"
    /\ LET q == validate_sql_query(response[s], schema_info[s].items)
       IN  /\ corrected_query' = [corrected_query EXCEPT ![s] = q]
           /\ display' = [display EXCEPT ![s] =
                  @ \o <<Widget("subheader", "Corrected SQL Query:", <<>>),
                         Widget("code", "", q)>>]
    /\ pc' = [pc EXCEPT ![s] = "execute"]
    /\ UNCHANGED <<submit, question, uploaded_file, schema_info,
                   formatted_schema_info, prompt, response, result, temp_database,
                   calls, writes, sqlite_outcome, inspected, executed, overlapped,
                   harnessVars>>

\* line 135
Execute(s) ==
    /\ pc[s] = "execute"
    /\ \E outcome \in SqliteOutcomes(temp_database.bytes) :
        LET r == read_sql_query(outcome)
        IN  /\ sqlite_outcome' = [sqlite_outcome EXCEPT ![s] =
                   [raised |-> outcome.raised, error |-> outcome.error,
                    rows |-> outcome.rows, mutates |-> outcome.mutates, ran |-> TRUE]]
            /\ temp_database' = IF outcome.mutates
                                THEN [temp_database EXCEPT !.dirty = TRUE]
                                ELSE temp_database
            /\ IF r.raised
               THEN /\ Handle(s, outcome.error)
                    /\ UNCHANGED result
               ELSE /\ result' = [result EXCEPT ![s] =
                           [type |-> r.type, text |-> r.text, rows |-> r.rows]]
                    /\ pc' = [pc EXCEPT ![s] = "render"]
                    /\ UNCHANGED display
    /\ executed' = [executed EXCEPT ![s] = temp_database]
    /\ UNCHANGED <<submit, question, uploaded_file, schema_info,
                   formatted_schema_info, prompt, response, corrected_query, calls,
                   writes, inspected, overlapped, harnessVars>>

\* lines 138-143
Render(s) ==
    /\ pc[s] = "render"
    /\ display' = [display EXCEPT ![s] =
           @ \o <<Widget("subheader", "Query Results:", <<>>)>>
             \o IF result[s].type = "str"
                THEN <<Widget("error", "Error: ", result[s].text)>>
                ELSE [i \in 1..Len(result[s].rows) |->
                         Widget("write", "", result[s].rows[i])]]
    /\ pc' = [pc EXCEPT ![s] = "idle"]
    /\ UNCHANGED <<submit, question, uploaded_file, schema_info,
                   formatted_schema_info, prompt, response, corrected_query, result,
                   temp_database, calls, writes, sqlite_outcome, inspected, executed,
                   overlapped, harnessVars>>

\* who uses the page, and with what
OneUser ==
    [sessions  |-> {"s1"},
     files     |-> Uploads \cup {NoFile},
     questions |-> Questions,
     clicks    |-> BOOLEAN,
     service   |-> ServiceOutcomes]

\* two browser sessions, each asking about a database of its own choice
TwoUsers ==
    [sessions  |-> Sessions,
     files     |-> {DbOne, DbTwo},
     questions |-> {<<"a">>},
     clicks    |-> {TRUE},
     service   |-> {o \in ServiceOutcomes : o.raised \/ o.text = <<"a", "b", " ", "a">>}]

Step(env) ==
    \E s \in env.sessions :
        \/ RunScript(s, env)
        \/ OpenFile(s)
        \/ WriteFile(s)
        \/ InspectSchema(s)
        \/ FormatSchema(s)
        \/ Generate(s, env)
        \/ Correct(s)
        \/ Execute(s)
        \/ Render(s)

Next == Step(OneUser)

NextConcurrent == Step(TwoUsers)

Spec == Init /\ [][Next]_vars

SpecConcurrent == Init /\ [][NextConcurrent]_vars

(***************************************************************************)
(* validate_sql_query on its own: any query and any schema within the      *)
(* bounds, corrected once and then once more.                              *)
(***************************************************************************)
InitValidate ==
    /\ InitPage
    /\ fstep = "args"
    /\ v_query \in Queries
    /\ v_schema \in Schemas
    /\ v_corrected = <<>> /\ v_again = <<>>
    /\ t_Q = <<>> /\ t_tag = <<>> /\ t_fenced = FALSE /\ t_raw = <<>> /\ t_cleaned = <<>>

Validate ==
    /\ fstep = "args"
    /\ v_corrected' = validate_sql_query(v_query, v_schema)
    /\ fstep' = "validated"
    /\ UNCHANGED <<pageVars, t_Q, t_tag, t_fenced, t_raw, t_cleaned,
                   v_query, v_schema, v_again>>

Revalidate ==
    /\ fstep = "validated"
    /\ v_again' = validate_sql_query(v_corrected, v_schema)
    /\ fstep' = "revalidated"
    /\ UNCHANGED <<pageVars, t_Q, t_tag, t_fenced, t_raw, t_cleaned,
                   v_query, v_schema, v_corrected>>

NextValidate == Validate \/ Revalidate

SpecValidate == InitValidate /\ [][NextValidate]_vars

(***************************************************************************)
(* The cleaning of get_gemini_response on its own: the service answers a   *)
(* query text as it is, or inside a code fence.                            *)
(***************************************************************************)
\* query texts: not empty, no white space around them
QueryTexts ==
    {q \in Queries : q # <<>> /\ Head(q) \in Letters /\ q[Len(q)] \in Letters}

Tags == StrUpTo(Letters, MaxTagLen)

InitClean ==
    /\ InitPage
    /\ fstep = "asked"
    /\ t_Q \in QueryTexts
    /\ t_tag = <<>> /\ t_fenced = FALSE /\ t_raw = <<>> /\ t_cleaned = <<>>
    /\ v_query = <<>> /\ v_schema = <<>> /\ v_corrected = <<>> /\ v_again = <<>>

RespondPlain ==
    /\ fstep = "asked"
    /\ t_raw' = t_Q
    /\ fstep' = "answered"
    /\ UNCHANGED <<pageVars, t_Q, t_tag, t_fenced, t_cleaned,
                   v_query, v_schema, v_corrected, v_again>>

RespondFenced ==
    /\ fstep = "asked"
    /\ \E tag \in Tags :
          /\ t_tag' = tag
          /\ t_raw' = Fence(tag, t_Q)
    /\ t_fenced' = TRUE
    /\ fstep' = "answered"
    /\ UNCHANGED <<pageVars, t_Q, t_cleaned, v_query, v_schema, v_corrected, v_again>>

Clean ==
    /\ fstep = "answered"
    /\ t_cleaned' = clean_response(t_raw)
    /\ fstep' = "cleaned"
    /\ UNCHANGED <<pageVars, t_Q, t_tag, t_fenced, t_raw,
                   v_query, v_schema, v_corrected, v_again>>

NextClean == RespondPlain \/ RespondFenced \/ Clean

SpecClean == InitClean /\ [][NextClean]_vars

(***************************************************************************)
(* Properties of validate_sql_query, under SpecValidate.                   *)
(***************************************************************************)
Validated == fstep \in {"validated", "revalidated"}

\* where name stands in query, in any letter-casing
Occurrences(query, name) ==
    {i \in 1..(Len(query) - Len(name) + 1) :
        Lower(SubSeq(query, i, i + Len(name) - 1)) = Lower(name)}

\* the occurrence of name at i shares no character with another occurrence
\* of a schema name
Isolated(query, names, i, name) ==
    \A m \in names : \A j \in Occurrences(query, m) :
        \/ m = <<>>
        \/ (j = i /\ m = name)
        \/ j + Len(m) - 1 < i
        \/ i + Len(name) - 1 < j

\* C1: a schema name that stands in the generated query in any letter-casing
\* (all upper, all lower, mixed) stands in the corrected query in its
\* canonical case: `FROM STUDENTS` becomes `FROM students`.  Occurrences that
\* share characters with another one are left out, no rewriting can serve both.
C1_CanonicalCase ==
    Validated =>
        \A name \in SchemaNames(v_schema) \ {<<>>} :
            \A i \in Occurrences(v_query, name) :
                Isolated(v_query, SchemaNames(v_schema), i, name)
                    => SubSeq(v_corrected, i, i + Len(name) - 1) = name

\* C5: validate_sql_query is idempotent: correcting the corrected query
\* again returns it unchanged.
C5_Idempotent == fstep = "revalidated" => v_again = v_corrected

\* the identifiers of a query: its maximal runs of identifier characters
Identifiers(query) ==
    {SubSeq(query, r[1], r[2]) : r \in
        {<<i, j>> \in (1..Len(query)) \X (1..Len(query)) :
            /\ i <= j
            /\ \A k \in i..j : query[k] \in IdentChars
            /\ (i = 1 \/ query[i - 1] \notin IdentChars)
            /\ (j = Len(query) \/ query[j + 1] \notin IdentChars)}}

\* every identifier of the query that is a schema name in some letter-casing
\* is written exactly as the schema spells it
SpelledAsSchema(query, names) ==
    \A id \in Identifiers(query) :
        (\E n \in names : Lower(n) = Lower(id)) => id \in names

\* no two names of the schema are one name in two letter-casings
Unambiguous(names) == \A n, m \in names : Lower(n) = Lower(m) => n = m

\* C6: a query whose table and column identifiers are already written exactly
\* as the schema spells them is returned unchanged, also when a schema name is
\* a substring of another schema name or of a longer identifier of the query.
\* Stated for the schemas that spell every name one way.
C6_CorrectlyCasedUnchanged ==
    (/\ Validated
     /\ Unambiguous(SchemaNames(v_schema))
     /\ SpelledAsSchema(v_query, SchemaNames(v_schema)))
        => v_corrected = v_query

OnlyCaseDiffers(before, after) ==
    /\ Len(after) = Len(before)
    /\ \A i \in 1..Len(before) : LowerChar(after[i]) = LowerChar(before[i])

\* C10: validate_sql_query changes nothing but letter case: the result has
\* the length of the query and equals it when both are lower-cased, whatever
\* the order and overlap of the substitutions.
C10_OnlyCaseChanges ==
    /\ Validated => OnlyCaseDiffers(v_query, v_corrected)
    /\ fstep = "revalidated" => OnlyCaseDiffers(v_query, v_again)

\* C10's case: two schema names stand in the query on shared characters and
\* the correction has rewritten it
C10_OverlappingRewrite ==
    /\ fstep = "validated"
    /\ v_corrected # v_query
    /\ \E n, m \in SchemaNames(v_schema) \ {<<>>} :
          /\ Lower(n) # Lower(m)
          /\ \E i \in Occurrences(v_query, n), j \in Occurrences(v_query, m) :
                i < j /\ j <= i + Len(n) - 1

(***************************************************************************)
(* Properties of the cleaning, under SpecClean.                            *)
(***************************************************************************)

\* C2: a query text that the service returns inside a code fence with a
\* language tag comes back from get_gemini_response as exactly that text.
C2_FenceStripped ==
    (fstep = "cleaned" /\ t_fenced /\ t_tag # <<>>) => t_cleaned = t_Q

(***************************************************************************)
(* Properties of the page, under Spec (one user).                          *)
(***************************************************************************)
Shows(s, w) == \E i \in 1..Len(display[s]) : display[s][i] = w

EmptyOrWhitespace(q) == \A i \in 1..Len(q) : q[i] \in Whitespace

NothingSpent(s) == calls[s] = 0 /\ writes[s] = 0

\* the run of the script is over
Over(s) == pc[s] = "idle"

\* the run was a submission that passed the validation of the question
Passed(s) ==
    submit[s] /\ uploaded_file[s].id # "None" /\ ~EmptyOrWhitespace(question[s])

\* C3 as claimed: every submit action with an empty or all-whitespace question
\* shows the validation error, and calls no service and writes no file.
C3_BlankSubmitRejected ==
    \A s \in Sessions :
        (Over(s) /\ submit[s] /\ EmptyOrWhitespace(question[s]))
            => Shows(s, ValidationError) /\ NothingSpent(s)

\* C3, amended: a submit action with a file uploaded and an empty or
\* all-whitespace question shows the validation error; with no file uploaded
\* it shows nothing; either way it calls no service and writes no file.
C3_BlankSubmitWithFileRejected ==
    \A s \in Sessions :
        (Over(s) /\ submit[s] /\ EmptyOrWhitespace(question[s]))
            => /\ NothingSpent(s)
               /\ uploaded_file[s].id # "None" => display[s] = <<ValidationError>>
               /\ uploaded_file[s].id = "None" => display[s] = <<>>

\* C3's case: an all-whitespace question was submitted with a file
C3_WhitespaceSubmitted ==
    \E s \in Sessions :
        /\ Over(s) /\ submit[s] /\ uploaded_file[s].id # "None"
        /\ question[s] = <<" ", "\n">>
        /\ Shows(s, ValidationError)

Failed(s) == sqlite_outcome[s].ran /\ sqlite_outcome[s].raised

ErrorLine(s) == Widget("error", "Error: ", result[s].text)

RowLines(s) == {i \in 1..Len(display[s]) : display[s][i].widget = "write"}

\* C4: when the execution of the statement fails, read_sql_query returns the
\* failure's description as a string and no exception reaches the handler of
\* the page; the page renders a string as `Error: ...`, and renders row lines
\* only for a row sequence, one line per row.
C4_ExecutionErrorReturned ==
    \A s \in Sessions :
        /\ Failed(s) =>
              /\ result[s].type = "str"
              /\ result[s].text = sqlite_outcome[s].error
              /\ pc[s] \in {"render", "idle"}
              /\ ~Shows(s, ProcessingError(sqlite_outcome[s].error))
        /\ (Over(s) /\ result[s].type = "str") =>
              Shows(s, ErrorLine(s)) /\ RowLines(s) = {}
        /\ RowLines(s) # {} =>
              /\ result[s].type = "list"
              /\ Cardinality(RowLines(s)) = Len(result[s].rows)
        /\ (Over(s) /\ result[s].type = "list") =>
              Cardinality(RowLines(s)) = Len(result[s].rows)

\* C4's case: the statement failed and the page shows the error line
C4_ErrorRendered ==
    \E s \in Sessions : Over(s) /\ Failed(s) /\ Shows(s, ErrorLine(s))

InspectionFailed(s) == inspected[s].by # "nobody" /\ ~inspected[s].bytes.valid

\* C7 as claimed: after a failed inspection schema_info is an error string and
\* the run goes on through the formatting to the call of the service.
C7_FailedInspectionReachesService ==
    \A s \in Sessions :
        (InspectionFailed(s) /\ Over(s))
            => schema_info[s].type = "str" /\ calls[s] >= 1

\* C7, amended: after a failed inspection schema_info is an error string, and
\* the run ends at the formatting of line 122: the string has no items(), the
\* handler shows the generic message, and the service is never called.
C7_FailedInspectionEndsAtFormatting ==
    \A s \in Sessions :
        InspectionFailed(s) =>
            /\ schema_info[s].type = "str"
            /\ schema_info[s].text = <<"file is not a database">>
            /\ calls[s] = 0
            /\ pc[s] \in {"format", "idle"}
            /\ Over(s) => display[s] =
                   <<ProcessingError(<<"'str' object has no attribute 'items'">>)>>

\* C7's case: a run whose inspection failed is over
C7_FailedInspectionOver ==
    \E s \in Sessions :
        InspectionFailed(s) /\ Over(s) /\ schema_info[s].type = "str"

\* the run has opened the file and written the upload to it
Saved(s) == writes[s] = 2

\* C8 as claimed: a submission that passes the validation of the question makes
\* exactly one call of the service, never more and never none.  Stated for the
\* runs that saved the upload, so that no failure of the file system counts
\* against the claim.
C8_ExactlyOneCall ==
    \A s \in Sessions : (Over(s) /\ Passed(s) /\ Saved(s)) => calls[s] = 1

ServiceError == ProcessingError(<<"service unavailable">>)

\* C8, amended: a submission that passes the validation of the question makes at
\* most one call of the service: a failed call is not retried and ends the run
\* with the generic message.  It makes exactly one when the upload was saved
\* and the inspection returned a mapping, and none otherwise.
C8_AtMostOneCall ==
    \A s \in Sessions :
        /\ calls[s] <= 1
        /\ (Over(s) /\ Passed(s)) => (calls[s] = 1 <=> schema_info[s].type = "dict")
        /\ Shows(s, ServiceError) =>
              /\ calls[s] = 1 /\ Over(s)
              /\ display[s] = <<ServiceError>>
              /\ result[s].type = "none"

\* C8's case: the one call failed and the run is over
C8_FailedCallOver ==
    \E s \in Sessions : Over(s) /\ Passed(s) /\ calls[s] = 1 /\ Shows(s, ServiceError)

(***************************************************************************)
(* The shared file, under SpecConcurrent (two sessions).                   *)
(***************************************************************************)
OwnBytes(s) == [bytes |-> uploaded_file[s], by |-> s, dirty |-> FALSE]

\* C9: runs that do not overlap inspect and execute against exactly their own
\* upload; with two sessions at once there is an interleaving in which a run
\* reads the other's upload (C9_ReadsOthersUpload is reached).
C9_SequentialRunsReadOwnBytes ==
    \A s \in Sessions :
        ~overlapped[s] =>
            /\ inspected[s].by # "nobody" => inspected[s] = OwnBytes(s)
            /\ executed[s].by # "nobody" => executed[s] = OwnBytes(s)
            /\ pc[s] \in {"inspect", "format", "generate", "correct", "execute"}
                  => temp_database = OwnBytes(s)

\* C9's case: a run has inspected one upload and executed against the other
\* session's different upload
C9_ReadsOthersUpload ==
    \E s, t \in Sessions :
        /\ s # t
        /\ uploaded_file[s].id # uploaded_file[t].id
        /\ inspected[s] = OwnBytes(s)
        /\ executed[s] = OwnBytes(t)

====
